---- MODULE Spec2Model ----
(***************************************************************************)
(* Model of the two batch programs of the repository:                      *)
(*   ai-generators/generate_files_from_xlsx.py  (sheet transformer)        *)
(*   generate_sitemaps.py                       (client-workbook sitemaps) *)
(* Text is modelled as a sequence of one-character strings, so that        *)
(* trimming, case folding, splitting and prefix/substring tests are        *)
(* computed as the code computes them.                                     *)
(***************************************************************************)
EXTENDS Integers, Sequences, FiniteSets, TLC

(***************************************************************************)
(* Text literals                                                           *)
(***************************************************************************)
s_empty == << >>
s_nan == <<"n","a","n">>
s_not_specified == <<"n","o","t"," ","s","p","e","c","i","f","i","e","d">>
s_n_a == <<"n","/","a">>
s_none == <<"n","o","n","e">>
s_true == <<"t","r","u","e">>
s_yes == <<"y","e","s">>
s_false == <<"f","a","l","s","e">>
s_no == <<"n","o">>
s_website == <<"w","e","b","s","i","t","e">>
s_sameAs == <<"s","a","m","e","A","s">>
s_Name == <<"N","a","m","e">>
s_Name_sp == <<" ","N","a","m","e"," ">>
s_Widget == <<"W","i","d","g","e","t">>
s_9_99 == <<"9",".","9","9">>
s_color == <<"c","o","l","o","r">>
s_color_sp == <<" ","c","o","l","o","r"," ">>
s_red == <<"r","e","d">>
s_blue == <<"b","l","u","e">>
s_links == <<"a",".","c","o","m"," ","|"," ","b",".","c","o","m","|","c",".","c","o","m">>
s_NA == <<"N","/","A">>
s_7 == <<"7">>
s_0 == <<"0">>
s_123 == <<"1","2","3">>
s_No == <<"N","o">>
s_acme_url == <<" ","h","t","t","p","s",":","/","/","a","c","m","e",".","i","o"," ">>
s_fb == <<" ","h","t","t","p","s",":","/","/","f","b",".","i","o","/"," ">>
s_domain == <<"d","o","m","a","i","n">>
s_site_url == <<"s","i","t","e","_","u","r","l">>
s_base_url == <<"b","a","s","e","_","u","r","l">>
s_url == <<"u","r","l">>
s_client_name == <<"c","l","i","e","n","t","_","n","a","m","e">>
s_name == <<"n","a","m","e">>
s_client == <<"c","l","i","e","n","t">>
s_brand == <<"b","r","a","n","d">>
s_locations_file == <<"l","o","c","a","t","i","o","n","s","_","f","i","l","e">>
s_products_file == <<"p","r","o","d","u","c","t","s","_","f","i","l","e">>
s_team_file == <<"t","e","a","m","_","f","i","l","e">>
s_locations_files == <<"l","o","c","a","t","i","o","n","s","_","f","i","l","e","s">>
s_products_files == <<"p","r","o","d","u","c","t","s","_","f","i","l","e","s">>
s_team_files == <<"t","e","a","m","_","f","i","l","e","s">>
s_include_files == <<"i","n","c","l","u","d","e","_","f","i","l","e","s">>
s_include_paths == <<"i","n","c","l","u","d","e","_","p","a","t","h","s">>
s_extra_paths == <<"e","x","t","r","a","_","p","a","t","h","s">>
s_paths == <<"p","a","t","h","s">>
s_locations == <<"l","o","c","a","t","i","o","n","s">>
s_products == <<"p","r","o","d","u","c","t","s">>
s_team == <<"t","e","a","m">>
s_dot_json == <<".","j","s","o","n">>
s_dot_yaml == <<".","y","a","m","l">>
s_dot_yml == <<".","y","m","l">>
s_https == <<"h","t","t","p","s",":","/","/">>
s_http == <<"h","t","t","p",":","/","/">>
s_example_com == <<"e","x","a","m","p","l","e",".","c","o","m">>
s_yourdomain_com == <<"y","o","u","r","d","o","m","a","i","n",".","c","o","m">>
s_your_domain_com == <<"y","o","u","r","-","d","o","m","a","i","n",".","c","o","m">>
s_client_ == <<"c","l","i","e","n","t","_">>
s_sitemap_xml == <<"_","s","i","t","e","m","a","p",".","x","m","l">>
s_Domain == <<"D","o","m","a","i","n">>
s_id == <<"i","d">>
s_store_json == <<"s","t","o","r","e",".","j","s","o","n">>
s_notes_txt == <<"n","o","t","e","s",".","t","x","t">>
s_staff_yaml == <<"s","t","a","f","f",".","y","a","m","l">>
s_hours_YML == <<"h","o","u","r","s",".","Y","M","L">>
s_sub == <<"s","u","b">>
s_Acme_Co == <<"A","c","m","e"," ","C","o">>
s_acme_co == <<"a","c","m","e","/","c","o">>
s_acme_io == <<"a","c","m","e",".","i","o">>
s_https_acme_io == <<"h","t","t","p","s",":","/","/","a","c","m","e",".","i","o">>
s_example_path == <<"e","x","a","m","p","l","e",".","c","o","m","/","p","a","t","h">>
s_b_io_slashes == <<"h","t","t","p",":","/","/","b",".","i","o","/","/">>
s_My_Your_Domain_COM == <<"M","y",".","Y","o","u","r","-","D","o","m","a","i","n",".","C","O","M">>
s_two_spaces == <<" "," ">>
s_list_bare_and_path == <<"s","t","o","r","e",".","j","s","o","n",","," ","l","o","c","a","t","i","o","n","s","/","s","t","o","r","e",".","j","s","o","n",",","s","t","o","r","e",".","j","s","o","n">>
s_list_dot_path == <<".","/","l","o","c","a","t","i","o","n","s","/","s","t","o","r","e",".","j","s","o","n",";","n","o","t","e","s",".","t","x","t",";","s","t","o","r","e",".","j","s","o","n">>
s_list_nested == <<"l","o","c","a","t","i","o","n","s","/","s","t","o","r","e",".","j","s","o","n","\n","s","t","a","f","f",".","y","a","m","l","|","h","o","u","r","s",".","Y","M","L","|"," ">>

(***************************************************************************)
(* Python str methods used by the two programs                             *)
(***************************************************************************)
IsSpace(c) == c \in {" ", "\t", "\n"}

Upper == {"A","B","C","D","E","F","G","H","I","J","K","L","M",
          "N","O","P","Q","R","S","T","U","V","W","X","Y","Z"}

LowerOf == [c \in Upper |->
              CASE c = "A" -> "a" [] c = "B" -> "b" [] c = "C" -> "c" [] c = "D" -> "d"
                [] c = "E" -> "e" [] c = "F" -> "f" [] c = "G" -> "g" [] c = "H" -> "h"
                [] c = "I" -> "i" [] c = "J" -> "j" [] c = "K" -> "k" [] c = "L" -> "l"
                [] c = "M" -> "m" [] c = "N" -> "n" [] c = "O" -> "o" [] c = "P" -> "p"
                [] c = "Q" -> "q" [] c = "R" -> "r" [] c = "S" -> "s" [] c = "T" -> "t"
                [] c = "U" -> "u" [] c = "V" -> "v" [] c = "W" -> "w" [] c = "X" -> "x"
                [] c = "Y" -> "y" [] c = "Z" -> "z"]

\* str.lower()
Lower(s) == [i \in 1..Len(s) |-> IF s[i] \in Upper THEN LowerOf[s[i]] ELSE s[i]]

RECURSIVE LStrip(_)
LStrip(s) == IF s # << >> /\ IsSpace(Head(s)) THEN LStrip(Tail(s)) ELSE s

RECURSIVE RStrip(_)
RStrip(s) == IF s # << >> /\ IsSpace(s[Len(s)])
               THEN RStrip(SubSeq(s, 1, Len(s) - 1)) ELSE s

\* str.strip()
Strip(s) == RStrip(LStrip(s))

\* str.startswith(p)
StartsWith(s, p) == Len(p) <= Len(s) /\ SubSeq(s, 1, Len(p)) = p

\* `sub in s`
Contains(s, sub) ==
    \E i \in 0..(Len(s) - Len(sub)) : SubSeq(s, i + 1, i + Len(sub)) = sub

\* str.rstrip(chars)
RECURSIVE RStripChars(_, _)
RStripChars(s, chars) == IF s # << >> /\ s[Len(s)] \in chars
                           THEN RStripChars(SubSeq(s, 1, Len(s) - 1), chars) ELSE s

\* str.lstrip(chars)
RECURSIVE LStripChars(_, _)
LStripChars(s, chars) == IF s # << >> /\ Head(s) \in chars
                           THEN LStripChars(Tail(s), chars) ELSE s

\* str.replace(old, new) for one-character old and new
ReplaceChar(s, old, new) == [i \in 1..Len(s) |-> IF s[i] = old THEN new ELSE s[i]]

\* str.replace(c, '', 1): drop the first occurrence of c
RECURSIVE RemoveFirst(_, _)
RemoveFirst(s, c) == IF s = << >> THEN s
                     ELSE IF Head(s) = c THEN Tail(s)
                     ELSE <<Head(s)>> \o RemoveFirst(Tail(s), c)

\* str.split(sep) for a one-character sep: always at least one part
RECURSIVE SplitOn(_, _)
SplitOn(s, sep) ==
    IF \A i \in 1..Len(s) : s[i] # sep THEN <<s>>
    ELSE LET k == CHOOSE i \in 1..Len(s) : s[i] = sep /\ \A j \in 1..(i - 1) : s[j] # sep
         IN <<SubSeq(s, 1, k - 1)>> \o SplitOn(SubSeq(s, k + 1, Len(s)), sep)

Digits == {"0","1","2","3","4","5","6","7","8","9"}

DigitVal == [c \in Digits |->
               CASE c = "0" -> 0 [] c = "1" -> 1 [] c = "2" -> 2 [] c = "3" -> 3
                 [] c = "4" -> 4 [] c = "5" -> 5 [] c = "6" -> 6 [] c = "7" -> 7
                 [] c = "8" -> 8 [] c = "9" -> 9]

\* str.isdigit()
isdigit(s) == s # << >> /\ \A i \in 1..Len(s) : s[i] \in Digits

\* int(s) of a digit string
RECURSIVE ParseInt(_)
ParseInt(s) == IF s = << >> THEN 0
               ELSE 10 * ParseInt(SubSeq(s, 1, Len(s) - 1)) + DigitVal[s[Len(s)]]

(***************************************************************************)
(* Python values.  Every value has the same fields so that any two can be  *)
(* compared: t is the type, n the integer (or the float's digits, or the   *)
(* bool as 0/1), e the float's number of decimals, s the text, l the list. *)
(***************************************************************************)
None == [t |-> "none", n |-> 0, e |-> 0, s |-> << >>, l |-> << >>]
IntV(n) == [t |-> "int", n |-> n, e |-> 0, s |-> << >>, l |-> << >>]
BoolV(b) == [t |-> "bool", n |-> IF b THEN 1 ELSE 0, e |-> 0, s |-> << >>, l |-> << >>]
StrV(s) == [t |-> "str", n |-> 0, e |-> 0, s |-> s, l |-> << >>]
ListV(l) == [t |-> "list", n |-> 0, e |-> 0, s |-> << >>, l |-> l]

\* A float is n / 10^e with no trailing zero decimal: 1.50 and 1.5 are one value.
RECURSIVE FloatV(_, _)
FloatV(n, e) == IF e > 0 /\ n % 10 = 0 THEN FloatV(n \div 10, e - 1)
                ELSE [t |-> "float", n |-> n, e |-> e, s |-> << >>, l |-> << >>]

\* float(s) of a digit string with one '.'
ParseFloat(s) ==
    LET parts == SplitOn(s, ".")
    IN FloatV(ParseInt(parts[1] \o parts[2]), Len(parts[2]))

\* bool(v)
Truthy(v) == CASE v.t = "none" -> FALSE
               [] v.t \in {"int", "float", "bool"} -> v.n # 0
               [] v.t = "str" -> v.s # << >>
               [] v.t = "list" -> v.l # << >>

\* a == b (and equal hashes) as dict keys: 1, 1.0 and True are one key
KeyEq(a, b) ==
    LET num == {"int", "float", "bool"}
    IN IF a.t \in num /\ b.t \in num THEN a.n = b.n /\ a.e = b.e
       ELSE a = b

(***************************************************************************)
(* A worksheet cell as pandas hands it over: NaN, or a value whose str()   *)
(* is the text s.                                                          *)
(***************************************************************************)
NaN == [nan |-> TRUE, s |-> << >>]
Cell(s) == [nan |-> FALSE, s |-> s]

\* pd.isna / pd.notna
isna(val) == val.nan

\* str(val)
str(val) == IF val.nan THEN s_nan ELSE val.s

(***************************************************************************)
(* generate_files_from_xlsx.py                                             *)
(***************************************************************************)
NullWords == {s_not_specified, s_n_a, s_empty, s_none}

clean_value(val) ==
    IF isna(val) THEN None
    ELSE LET v == Strip(str(val))
         IN IF Lower(v) \in NullWords THEN None
            ELSE IF isdigit(RemoveFirst(v, "."))
                   THEN IF Contains(v, <<".">>) THEN ParseFloat(v) ELSE IntV(ParseInt(v))
            ELSE IF Lower(v) \in {s_true, s_yes} THEN BoolV(TRUE)
            ELSE IF Lower(v) \in {s_false, s_no} THEN BoolV(FALSE)
            ELSE StrV(v)

\* d[k] = v on a dict kept as the sequence of its items in insertion order
DictSet(d, k, v) ==
    IF \E i \in 1..Len(d) : KeyEq(d[i].k, k)
      THEN [i \in 1..Len(d) |-> IF KeyEq(d[i].k, k) THEN [k |-> d[i].k, v |-> v] ELSE d[i]]
      ELSE Append(d, [k |-> k, v |-> v])

\* d.get(k): None when absent
DictGet(d, k) ==
    IF \E i \in 1..Len(d) : KeyEq(d[i].k, k)
      THEN d[CHOOSE i \in 1..Len(d) : KeyEq(d[i].k, k)].v
      ELSE None

\* headers = df.iloc[0].apply(lambda x: str(x).strip() if pd.notna(x) else "")
HeadersOf(df) == [i \in 1..Len(df[1]) |-> IF ~isna(df[1][i]) THEN Strip(str(df[1][i])) ELSE s_empty]

\* the inner loop of list mode: the record of one row, columns i..end
RECURSIVE RecordFrom(_, _, _, _)
RecordFrom(headers, row, i, record) ==
    IF i > Len(headers) THEN record
    ELSE IF i <= Len(row) /\ clean_value(row[i]) # None
      THEN RecordFrom(headers, row, i + 1, DictSet(record, StrV(headers[i]), clean_value(row[i])))
      ELSE RecordFrom(headers, row, i + 1, record)

\* RecordsFrom without the `if record:` test of the outer loop
RECURSIVE RecordsFrom_keep_empty(_, _, _, _)
RecordsFrom_keep_empty(df, headers, idx, records) ==
    IF idx > Len(df) THEN records
    ELSE RecordsFrom_keep_empty(df, headers, idx + 1,
                                Append(records, RecordFrom(headers, df[idx], 1, << >>)))

\* the outer loop of list mode: rows idx..end
RECURSIVE RecordsFrom(_, _, _, _)
RecordsFrom(df, headers, idx, records) ==
    IF idx > Len(df) THEN records
    ELSE LET record == RecordFrom(headers, df[idx], 1, << >>)
         IN RecordsFrom(df, headers, idx + 1,
                        IF record # << >> THEN Append(records, record) ELSE records)

\* the loop of key/value mode: rows idx..end
RECURSIVE DataFrom(_, _, _)
DataFrom(df, idx, data0) ==
    IF idx > Len(df) THEN data0
    ELSE LET cells == df[idx]
         IN IF Len(cells) < 2 THEN DataFrom(df, idx + 1, data0)
            ELSE IF ~Truthy(clean_value(cells[1])) THEN DataFrom(df, idx + 1, data0)
            ELSE DataFrom(df, idx + 1, DictSet(data0, clean_value(cells[1]), clean_value(cells[2])))

\* A document is [list |-> TRUE, recs |-> records] or [list |-> FALSE, recs |-> <<dict>>]
parse_sheet_to_dict_or_list(df, is_list) ==
    IF is_list
      THEN IF Len(df) = 0 THEN [list |-> TRUE, recs |-> << >>]
           ELSE [list |-> TRUE, recs |-> RecordsFrom(df, HeadersOf(df), 2, << >>)]
      ELSE [list |-> FALSE, recs |-> <<DataFrom(df, 1, << >>)>>]

SHEET_CONFIG == <<
    [name |-> "core_info", output_dir |-> "schema-files/organization",
     filename_base |-> "main-data", is_list |-> FALSE],
    [name |-> "Services", output_dir |-> "schema-files/services",
     filename_base |-> "services-list", is_list |-> TRUE],
    [name |-> "Products", output_dir |-> "schema-files/products",
     filename_base |-> "products-list", is_list |-> TRUE],
    [name |-> "FAQs", output_dir |-> "schema-files/faqs",
     filename_base |-> "faq", is_list |-> TRUE],
    [name |-> "Blog Summaries", output_dir |-> "schema-files/blogs",
     filename_base |-> "blogs-list", is_list |-> TRUE],
    [name |-> "Reviews", output_dir |-> "schema-files/reviews",
     filename_base |-> "reviews-list", is_list |-> TRUE],
    [name |-> "Locations", output_dir |-> "schema-files/locations",
     filename_base |-> "locations-list", is_list |-> TRUE],
    [name |-> "Team", output_dir |-> "schema-files/team",
     filename_base |-> "team-list", is_list |-> TRUE],
    [name |-> "Awards & Certifications", output_dir |-> "schema-files/awards",
     filename_base |-> "awards-list", is_list |-> TRUE],
    [name |-> "Press/News Mentions", output_dir |-> "schema-files/press",
     filename_base |-> "press-list", is_list |-> TRUE],
    [name |-> "Case Studies", output_dir |-> "schema-files/case-studies",
     filename_base |-> "case-studies-list", is_list |-> TRUE] >>

\* write_json_yaml, given whether writing the JSON file and writing the YAML
\* file raise when attempted: what happened to each file, and the result
write_json_yaml(json_raises, yaml_raises) ==
    IF json_raises
      THEN [json |-> "failed", yaml |-> "not attempted", success |-> FALSE]
    ELSE IF yaml_raises
      THEN [json |-> "written", yaml |-> "failed", success |-> FALSE]
    ELSE [json |-> "written", yaml |-> "written", success |-> TRUE]

(***************************************************************************)
(* generate_sitemaps.py                                                    *)
(***************************************************************************)
DOMAIN_CANDIDATES == <<s_domain, s_site_url, s_website, s_base_url, s_url>>
CLIENT_CANDIDATES == <<s_client_name, s_name, s_client, s_brand>>

FILE_COLUMNS == <<s_locations_file, s_products_file, s_team_file,
                  s_locations_files, s_products_files, s_team_files,
                  s_include_files, s_include_paths, s_extra_paths, s_paths>>

DEFAULT_FOLDERS == <<s_locations, s_products, s_team>>
VALID_EXTS == {s_dot_json, s_dot_yaml, s_dot_yml}

\* pick_first: the column whose lower-cased name is the first candidate that
\* some column matches (the last such column), or the empty text for None
pick_first(df_columns, candidates) ==
    LET hits == {k \in 1..Len(candidates) :
                   \E j \in 1..Len(df_columns) : Lower(df_columns[j]) = candidates[k]}
    IN IF hits = {} THEN s_empty
       ELSE LET k == CHOOSE h \in hits : \A g \in hits : h <= g
                j == CHOOSE a \in 1..Len(df_columns) :
                       /\ Lower(df_columns[a]) = candidates[k]
                       /\ \A b \in 1..Len(df_columns) :
                            Lower(df_columns[b]) = candidates[k] => b <= a
            IN df_columns[j]

\* split_items
split_items(val) ==
    IF isna(val) THEN << >>
    ELSE LET unified == ReplaceChar(ReplaceChar(ReplaceChar(str(val), ",", "|"), ";", "|"),
                                    "\n", "|")
             raw == SplitOn(unified, "|")
         IN SelectSeq([i \in 1..Len(raw) |-> Strip(raw[i])], LAMBDA part : part # << >>)

\* ensure_scheme without the final rstrip("/")
ensure_scheme_no_rstrip(url) ==
    LET u == Strip(url)
    IN IF u = << >> THEN u
       ELSE IF ~(StartsWith(u, s_http) \/ StartsWith(u, s_https)) THEN s_https \o u
       ELSE u

ensure_scheme(url) ==
    LET u == Strip(url)
    IN IF u = << >> THEN u
       ELSE RStripChars(IF ~(StartsWith(u, s_http) \/ StartsWith(u, s_https))
                          THEN s_https \o u ELSE u,
                        {"/"})

is_placeholder_domain(domain) ==
    \E placeholder \in {s_example_com, s_yourdomain_com, s_your_domain_com} :
       Contains(Lower(domain), placeholder)

\* str(n) of a natural number
DigitChar == [d \in 0..9 |-> CHOOSE c \in Digits : DigitVal[c] = d]

RECURSIVE IntToStr(_)
IntToStr(n) == IF n < 10 THEN <<DigitChar[n]>>
               ELSE IntToStr(n \div 10) \o <<DigitChar[n % 10]>>

\* sep.join(parts)
RECURSIVE Join(_, _)
Join(parts, sep) == IF parts = << >> THEN << >>
                    ELSE IF Len(parts) = 1 THEN parts[1]
                    ELSE parts[1] \o sep \o Join(Tail(parts), sep)

(***************************************************************************)
(* pathlib.  A Path is the sequence of its parts: Path(item) drops empty   *)
(* and "." parts.  The inputs of the model hold no absolute item and no    *)
(* ".." part, and the file system maps the parts of a file to "empty" (a   *)
(* zero-length regular file) or "file" (a non-empty one); a directory is   *)
(* there when a file lies under it.                                        *)
(***************************************************************************)
Path(item) == SelectSeq(SplitOn(item, "/"), LAMBDA part : part # << >> /\ part # <<".">>)

\* p.name
PathName(p) == IF p = << >> THEN << >> ELSE p[Len(p)]

\* p.suffix
PathSuffix(p) ==
    LET name == PathName(p)
        dots == {i \in 1..Len(name) : name[i] = "."}
    IN IF dots = {} THEN << >>
       ELSE LET i == CHOOSE d \in dots : \A o \in dots : o <= d
            IN IF i > 1 /\ i < Len(name) THEN SubSeq(name, i, Len(name)) ELSE << >>

\* p.as_posix()
as_posix(p) == IF p = << >> THEN <<".">> ELSE Join(p, <<"/">>)

\* p.exists() and p.is_file()
IsFile(disk, p) == p \in DOMAIN disk

file_is_nonempty(disk, p) == p \in DOMAIN disk /\ disk[p] = "file"

\* the files base.rglob("*") yields that pass the test of the auto-scan
Scanned(disk, folder) ==
    {p \in DOMAIN disk : /\ Len(p) > 1 /\ p[1] = folder
                         /\ Lower(PathSuffix(p)) \in VALID_EXTS
                         /\ file_is_nonempty(disk, p)}

\* every order in which a directory walk may yield the members of S
Orders(S) == {q \in [1..Cardinality(S) -> S] : \A x \in S : \E i \in DOMAIN q : q[i] = x}

\* the auto-scan of the default folders: every list `paths` it can build
AutoScan(disk) ==
    {[i \in 1..Len(o1 \o o2 \o o3) |-> as_posix((o1 \o o2 \o o3)[i])] :
        o1 \in Orders(Scanned(disk, DEFAULT_FOLDERS[1])),
        o2 \in Orders(Scanned(disk, DEFAULT_FOLDERS[2])),
        o3 \in Orders(Scanned(disk, DEFAULT_FOLDERS[3]))}

\* the candidates of one item: the file itself, else, for a bare file name
\* with a known extension, the non-empty files of that name in the default folders
Candidates(disk, item) ==
    LET p == Path(item)
    IN IF IsFile(disk, p) THEN <<p>>
       ELSE IF /\ PathName(p) # << >>
               /\ Lower(PathSuffix(p)) \in VALID_EXTS
               /\ ~Contains(item, <<"/">>) /\ ~Contains(item, <<"\\">>)
         THEN SelectSeq([f \in 1..Len(DEFAULT_FOLDERS) |-> <<DEFAULT_FOLDERS[f], PathName(p)>>],
                        LAMBDA maybe : file_is_nonempty(disk, maybe))
         ELSE << >>

\* "Resolve actual existing nonempty files": the list `existing`
RECURSIVE Resolve(_, _)
Resolve(disk, items) ==
    IF items = << >> THEN << >>
    ELSE SelectSeq(Candidates(disk, Head(items)),
                   LAMBDA c : Lower(PathSuffix(c)) \in VALID_EXTS /\ file_is_nonempty(disk, c))
         \o Resolve(disk, Tail(items))

\* the list `existing` as it is, with no deduplication
Dedup_keep_all(existing) == existing

\* "Deduplicate while preserving order": the list `uniq`
RECURSIVE Dedup(_)
Dedup(existing) ==
    IF existing = << >> THEN << >>
    ELSE LET front == Dedup(SubSeq(existing, 1, Len(existing) - 1))
             last == existing[Len(existing)]
         IN IF \E i \in 1..Len(front) : as_posix(front[i]) = as_posix(last)
              THEN front ELSE Append(front, last)

\* the <url> elements written for the list uniq (lastmod, the file's mtime, is left out)
UrlsOf(domain0, uniq0) ==
    [i \in 1..Len(uniq0) |->
       [loc |-> domain0 \o <<"/">> \o LStripChars(as_posix(uniq0[i]), {".", "/"}),
        file |-> uniq0[i]]]

\* a line of the report
Line(kind, row_no, name, urls, domain0) ==
    [kind |-> kind, row |-> row_no, name |-> name, urls |-> urls, domain |-> domain0]

\* before anything is parsed, written or set
NoDoc == [list |-> FALSE, recs |-> << >>]
NoWrite == [json |-> "not attempted", yaml |-> "not attempted", success |-> FALSE]
NoFile == [exists |-> FALSE, text |-> << >>]
Unset == [set |-> FALSE, s |-> << >>]

(***************************************************************************)
(* Inputs of the model                                                     *)
(***************************************************************************)
MaxRows == 2

\* every sequence over S of length at most n
SeqsUpTo(S, n) == UNION {[1..k -> S] : k \in 0..n}

ColumnCounts == {1, 2}

HeaderCells == {Cell(s_Name), Cell(s_Name_sp), Cell(s_sameAs), NaN}
DataCells == {Cell(s_Widget), Cell(s_9_99), NaN}
KeyCells == {Cell(s_color), Cell(s_color_sp), Cell(s_sameAs), Cell(s_7), Cell(s_0), NaN}
ValCells == {Cell(s_red), Cell(s_blue), Cell(s_NA), Cell(s_links)}

\* tabular sheets: a header row and up to MaxRows data rows, or no row at all
ListGrids ==
    {<< >>} \cup
    UNION {{<<h>> \o rows : h \in [1..c -> HeaderCells],
                            rows \in SeqsUpTo([1..c -> DataCells], MaxRows)}
           : c \in ColumnCounts}

\* key/value sheets: up to MaxRows rows of (key, value), or of a key alone
KVGrids ==
    SeqsUpTo({<<k, v>> : k \in KeyCells, v \in ValCells}, MaxRows)
    \cup SeqsUpTo({<<k>> : k \in KeyCells}, MaxRows)

\* the sheet core_info of a workbook: rows of website or color and a value
SiteCells == {Cell(s_acme_url), Cell(s_123), Cell(s_NA), Cell(s_No)}
CoreInfoGrids ==
    SeqsUpTo({<<k, v>> : k \in {Cell(s_website), Cell(s_color)}, v \in SiteCells}, MaxRows)

\* the tabular sheets of a workbook: one column, at most one data row
SheetGrids ==
    {<< >>} \cup
    {<<<<h>>>> \o rows : h \in {Cell(s_Name), NaN},
                         rows \in SeqsUpTo({<<Cell(s_Widget)>>, <<NaN>>}, 1)}

\* SITE_BASE_URL: unset, set to the empty text, set to a URL
FallbackUrls == {Unset, [set |-> TRUE, s |-> << >>], [set |-> TRUE, s |-> s_fb]}

MaxClientRows == 2

\* the files of the working directory the model knows of
F_root == <<s_store_json>>
F_loc == <<s_locations, s_store_json>>
F_prod == <<s_products, s_store_json>>
F_notes == <<s_locations, s_notes_txt>>
F_hours == <<s_locations, s_hours_YML>>
F_staff == <<s_team, s_sub, s_staff_yaml>>
F_team == <<s_team, s_staff_yaml>>

NoFiles == [p \in {} |-> "file"]

\* the working directory before a run
Disks == {
    NoFiles,
    (F_loc :> "file") @@ (F_prod :> "empty") @@ (F_notes :> "file"),
    (F_loc :> "empty") @@ (F_prod :> "file") @@ (F_staff :> "file"),
    (F_root :> "empty") @@ (F_loc :> "file"),
    (F_root :> "file") @@ (F_loc :> "file") @@ (F_hours :> "file"),
    (F_loc :> "file") @@ (F_prod :> "file") @@ (F_hours :> "empty") @@ (F_team :> "file") }

\* the header rows of client-data.xlsx
ColsScan == <<s_Domain, s_Name>>
ColsFiles == <<s_website, s_paths, s_include_files>>
ColsNoDomain == <<s_id>>
Layouts == {ColsScan, ColsFiles, ColsNoDomain}

DomainCells == {NaN, Cell(s_two_spaces), Cell(s_acme_io), Cell(s_example_path),
                Cell(s_b_io_slashes), Cell(s_My_Your_Domain_COM)}
ClientCells == {Cell(s_Acme_Co), Cell(s_acme_co), Cell(s_two_spaces)}
PathsCells == {Cell(s_store_json), Cell(s_list_bare_and_path), Cell(s_list_dot_path)}
IncludeCells == {NaN, Cell(s_list_nested)}

\* the rows a workbook with the given header row may hold
RowsFor(cols) ==
    IF cols = ColsScan
      THEN {(s_Domain :> d) @@ (s_Name :> c) : d \in DomainCells, c \in ClientCells}
    ELSE IF cols = ColsFiles
      THEN {(s_website :> d) @@ (s_paths :> f) @@ (s_include_files :> g) :
               d \in {Cell(s_acme_io), Cell(s_b_io_slashes)},
               f \in PathsCells, g \in IncludeCells}
    ELSE {(s_id :> NaN)}

(***************************************************************************)
(* State                                                                   *)
(***************************************************************************)
VARIABLES
    xpc,            \* where the transformer is
    sheet_i,        \* position of the loop over SHEET_CONFIG
    df,             \* the grid of the sheet being parsed
    is_list,        \* the is_list flag of that sheet
    data,           \* the document parsed from df
    core_info,      \* the document parsed from the sheet core_info, once parsed
    site_url,       \* main's site_url
    wr,             \* what write_json_yaml did for the last sheet, and its result
    site_url_txt,   \* the file .github/config/site_url.txt
    SITE_BASE_URL,  \* the environment variable
    xexit,          \* exit status of the transformer, -1 while it runs
    spc,            \* where the sitemap generator is
    disk,           \* the files of the working directory
    columns,        \* df.columns of client-data.xlsx
    row_i,          \* i + 1 of the row last read, 0 before the first
    row,            \* the row last read
    domain,         \* the loop's domain
    slug,           \* the loop's slug
    paths,          \* the loop's paths
    existing,       \* the loop's existing
    uniq,           \* the loop's uniq
    report,         \* the report, a list of lines
    sitemaps,       \* the files sitemaps/<slug>_sitemap.xml: slug -> <url> elements
    total,          \* the loop's total
    report_txt,     \* the file sitemaps/_report.txt
    sexit           \* exit status of the sitemap generator, -1 while it runs

xvars == <<xpc, sheet_i, df, is_list, data, core_info, site_url, wr, site_url_txt,
           SITE_BASE_URL, xexit>>

svars == <<spc, disk, columns, row_i, row, domain, slug, paths, existing, uniq, report,
           sitemaps, total, report_txt, sexit>>

vars == <<xvars, svars>>

\* the transformer before it runs
XlsxIdle ==
    /\ sheet_i = 1
    /\ core_info = NoDoc
    /\ site_url = None
    /\ wr = NoWrite
    /\ site_url_txt = NoFile
    /\ xexit = -1

\* the sitemap generator before it runs
SitemapIdle ==
    /\ spc = "start"
    /\ row_i = 0
    /\ row = << >>
    /\ domain = << >>
    /\ slug = << >>
    /\ paths = << >>
    /\ existing = << >>
    /\ uniq = << >>
    /\ report = << >>
    /\ sitemaps = << >>
    /\ total = 0
    /\ report_txt = [exists |-> FALSE, lines |-> << >>]
    /\ sexit = -1

(***************************************************************************)
(* parse_sheet_to_dict_or_list applied to every bounded grid               *)
(***************************************************************************)
ParseInit ==
    /\ xpc = "parse_call"
    /\ is_list \in BOOLEAN
    /\ df \in (IF is_list THEN ListGrids ELSE KVGrids)
    /\ data = NoDoc
    /\ SITE_BASE_URL = Unset
    /\ XlsxIdle
    /\ SitemapIdle
    /\ disk = NoFiles
    /\ columns = << >>

Parse ==
    /\ xpc = "parse_call"
    /\ data' = parse_sheet_to_dict_or_list(df, is_list)
    /\ xpc' = "parse_return"
    /\ UNCHANGED <<df, is_list, sheet_i, core_info, site_url, wr, site_url_txt,
                   SITE_BASE_URL, xexit>>
    /\ UNCHANGED svars

ParseNext == Parse

SpecParse == ParseInit /\ [][ParseNext]_vars

(***************************************************************************)
(* main() of generate_files_from_xlsx.py                                   *)
(***************************************************************************)
MainInit ==
    /\ xpc = "start"
    /\ df = << >>
    /\ is_list = FALSE
    /\ data = NoDoc
    /\ SITE_BASE_URL \in FallbackUrls
    /\ XlsxIdle
    /\ SitemapIdle
    /\ disk = NoFiles
    /\ columns = << >>

\* os.path.exists(args.input) is false: exit(1)
InputNotFound ==
    /\ xpc = "start"
    /\ xpc' = "exit"
    /\ xexit' = 1
    /\ UNCHANGED <<sheet_i, df, is_list, data, core_info, site_url, wr, site_url_txt,
                   SITE_BASE_URL>>
    /\ UNCHANGED svars

\* pd.ExcelFile raises: exit(1)
LoadError ==
    /\ xpc = "start"
    /\ xpc' = "exit"
    /\ xexit' = 1
    /\ UNCHANGED <<sheet_i, df, is_list, data, core_info, site_url, wr, site_url_txt,
                   SITE_BASE_URL>>
    /\ UNCHANGED svars

\* the workbook is loaded
LoadWorkbook ==
    /\ xpc = "start"
    /\ xpc' = "sheets"
    /\ UNCHANGED <<sheet_i, df, is_list, data, core_info, site_url, wr, site_url_txt,
                   SITE_BASE_URL, xexit>>
    /\ UNCHANGED svars

\* one turn of the loop for a configured sheet the workbook does not have
SheetNotFound ==
    /\ xpc = "sheets"
    /\ sheet_i <= Len(SHEET_CONFIG)
    /\ sheet_i' = sheet_i + 1
    /\ UNCHANGED <<xpc, df, is_list, data, core_info, site_url, wr, site_url_txt,
                   SITE_BASE_URL, xexit>>
    /\ UNCHANGED svars

\* one turn of the loop for a sheet the workbook has: parse, note the website
\* of core_info, write both files
ProcessSheet ==
    /\ xpc = "sheets"
    /\ sheet_i <= Len(SHEET_CONFIG)
    /\ LET config == SHEET_CONFIG[sheet_i]
       IN \E grid \in (IF config.is_list THEN SheetGrids ELSE CoreInfoGrids),
             json_raises \in BOOLEAN, yaml_raises \in BOOLEAN :
            LET parsed == parse_sheet_to_dict_or_list(grid, config.is_list)
            IN /\ df' = grid
               /\ is_list' = config.is_list
               /\ data' = parsed
               /\ IF ~config.is_list /\ config.name = "core_info"
                    THEN /\ site_url' = DictGet(parsed.recs[1], StrV(s_website))
                         /\ core_info' = parsed
                    ELSE UNCHANGED <<site_url, core_info>>
               /\ wr' = write_json_yaml(json_raises, yaml_raises)
    /\ sheet_i' = sheet_i + 1
    /\ UNCHANGED <<xpc, site_url_txt, SITE_BASE_URL, xexit>>
    /\ UNCHANGED svars

\* after the loop: save the site URL for the sitemap, then fall off main
SaveSiteUrl ==
    /\ xpc = "sheets"
    /\ sheet_i > Len(SHEET_CONFIG)
    /\ IF Truthy(site_url)
         THEN IF site_url.t = "str"
                THEN /\ site_url_txt' = [exists |-> TRUE, text |-> Strip(site_url.s)]
                     /\ xpc' = "done"
                     /\ xexit' = 0
                \* an int, float or bool has no strip(): AttributeError, traceback
                ELSE /\ site_url_txt' = [exists |-> TRUE, text |-> << >>]
                     /\ xpc' = "raised"
                     /\ xexit' = 1
         ELSE /\ IF SITE_BASE_URL.set /\ SITE_BASE_URL.s # << >>
                   THEN site_url_txt' = [exists |-> TRUE, text |-> Strip(SITE_BASE_URL.s)]
                   ELSE site_url_txt' = site_url_txt
              /\ xpc' = "done"
              /\ xexit' = 0
    /\ UNCHANGED <<sheet_i, df, is_list, data, core_info, site_url, wr, SITE_BASE_URL>>
    /\ UNCHANGED svars

MainNext ==
    \/ InputNotFound
    \/ LoadError
    \/ LoadWorkbook
    \/ SheetNotFound
    \/ ProcessSheet
    \/ SaveSiteUrl

SpecMain == MainInit /\ [][MainNext]_vars

(***************************************************************************)
(* main() of generate_sitemaps.py                                          *)
(***************************************************************************)
SitemapInit ==
    /\ xpc = "idle"
    /\ df = << >>
    /\ is_list = FALSE
    /\ data = NoDoc
    /\ SITE_BASE_URL = Unset
    /\ XlsxIdle
    /\ SitemapIdle
    /\ disk \in Disks
    /\ columns \in Layouts

ErrorKinds == {"ERROR: Missing client-data.xlsx", "ERROR: Failed to read Excel",
               "ERROR: Cannot find a domain column", "ERROR: sitemap not written"}

\* the except clause of main: the error and its traceback go to the report
Caught(kind) ==
    /\ report' = report \o <<Line(kind, 0, << >>, 0, << >>), Line("TRACEBACK", 0, << >>, 0, << >>)>>
    /\ spc' = "report"

\* client-data.xlsx does not exist: FileNotFoundError
WorkbookMissing ==
    /\ spc = "start"
    /\ Caught("ERROR: Missing client-data.xlsx")
    /\ UNCHANGED <<disk, columns, row_i, row, domain, slug, paths, existing, uniq, sitemaps,
                   total, report_txt, sexit>>
    /\ UNCHANGED xvars

\* pd.read_excel raises: RuntimeError
ReadExcelFails ==
    /\ spc = "start"
    /\ Caught("ERROR: Failed to read Excel")
    /\ UNCHANGED <<disk, columns, row_i, row, domain, slug, paths, existing, uniq, sitemaps,
                   total, report_txt, sexit>>
    /\ UNCHANGED xvars

\* no column is a domain column: KeyError
NoDomainColumn ==
    /\ spc = "start"
    /\ pick_first(columns, DOMAIN_CANDIDATES) = s_empty
    /\ Caught("ERROR: Cannot find a domain column")
    /\ UNCHANGED <<disk, columns, row_i, row, domain, slug, paths, existing, uniq, sitemaps,
                   total, report_txt, sexit>>
    /\ UNCHANGED xvars

\* the workbook is read and has a domain column: the loop starts
ReadWorkbook ==
    /\ spc = "start"
    /\ pick_first(columns, DOMAIN_CANDIDATES) # s_empty
    /\ spc' = "rows"
    /\ UNCHANGED <<disk, columns, row_i, row, domain, slug, paths, existing, uniq, report,
                   sitemaps, total, report_txt, sexit>>
    /\ UNCHANGED xvars

domain_col == pick_first(columns, DOMAIN_CANDIDATES)

client_col == IF pick_first(columns, CLIENT_CANDIDATES) # s_empty
                THEN pick_first(columns, CLIENT_CANDIDATES) ELSE domain_col

\* file_cols = [c for c in FILE_COLUMNS if c in df.columns]
file_cols == SelectSeq(FILE_COLUMNS, LAMBDA c : \E j \in 1..Len(columns) : columns[j] = c)

\* the items of the file columns of a row, column after column
RECURSIVE ListedPaths(_, _)
ListedPaths(r, cols) == IF cols = << >> THEN << >>
                        ELSE split_items(r[Head(cols)]) \o ListedPaths(r, Tail(cols))

\* one turn of the loop over the rows.  r is the row, scan the list the
\* auto-scan builds (the order of a directory walk is not fixed), and
\* write_raises tells whether writing the sitemap raises.
ProcessRow ==
    /\ spc = "rows"
    /\ row_i < MaxClientRows
    /\ \E r \in RowsFor(columns), scan \in AutoScan(disk), write_raises \in BOOLEAN :
         LET raw_dom == Strip(str(r[domain_col]))
             domain1 == ensure_scheme(raw_dom)
             fallback == s_client_ \o IntToStr(row_i + 1)
             client_raw == IF Strip(str(r[client_col])) # << >>
                             THEN Strip(str(r[client_col])) ELSE fallback
             slug1 == Lower(ReplaceChar(ReplaceChar(client_raw, " ", "_"), "/", "_"))
             paths1 == IF file_cols # << >> THEN ListedPaths(r, file_cols) ELSE scan
             existing1 == Resolve(disk, paths1)
             uniq1 == Dedup(existing1)
             name == slug1 \o s_sitemap_xml
         IN /\ row' = r
            /\ row_i' = row_i + 1
            /\ IF raw_dom = << >> \/ Lower(raw_dom) = s_nan
                 THEN /\ report' = Append(report, Line("SKIPPED", row_i + 1, << >>, 0, << >>))
                      /\ UNCHANGED <<spc, domain, slug, paths, existing, uniq, sitemaps, total>>
               ELSE IF is_placeholder_domain(domain1)
                 THEN /\ report' = Append(report, Line("ERROR placeholder", row_i + 1, << >>, 0,
                                                       domain1))
                      /\ domain' = domain1
                      /\ UNCHANGED <<spc, slug, paths, existing, uniq, sitemaps, total>>
               ELSE /\ domain' = domain1
                    /\ slug' = slug1
                    /\ paths' = paths1
                    /\ existing' = existing1
                    /\ uniq' = uniq1
                    /\ IF write_raises
                         THEN /\ Caught("ERROR: sitemap not written")
                              /\ UNCHANGED <<sitemaps, total>>
                         ELSE /\ sitemaps' = [k \in DOMAIN sitemaps \cup {slug1} |->
                                                IF k = slug1 THEN UrlsOf(domain1, uniq1)
                                                ELSE sitemaps[k]]
                              /\ report' = Append(report, Line("WROTE", row_i + 1, name,
                                                               Len(uniq1), domain1))
                              /\ total' = total + 1
                              /\ UNCHANGED spc
    /\ UNCHANGED <<disk, columns, report_txt, sexit>>
    /\ UNCHANGED xvars

\* the rows are exhausted: the summary line
EndOfRows ==
    /\ spc = "rows"
    /\ report' = Append(report, Line("DONE", 0, << >>, total, << >>))
    /\ spc' = "report"
    /\ UNCHANGED <<disk, columns, row_i, row, domain, slug, paths, existing, uniq, sitemaps,
                   total, report_txt, sexit>>
    /\ UNCHANGED xvars

\* the report is written and printed; main returns None and sys.exit(None)
\* ends the process with status 0
WriteReport ==
    /\ spc = "report"
    /\ report_txt' = [exists |-> TRUE, lines |-> report]
    /\ spc' = "exit"
    /\ sexit' = 0
    /\ UNCHANGED <<disk, columns, row_i, row, domain, slug, paths, existing, uniq, report,
                   sitemaps, total>>
    /\ UNCHANGED xvars

SitemapNext ==
    \/ WorkbookMissing
    \/ ReadExcelFails
    \/ NoDomainColumn
    \/ ReadWorkbook
    \/ ProcessRow
    \/ EndOfRows
    \/ WriteReport

SpecSitemaps == SitemapInit /\ [][SitemapNext]_vars

(***************************************************************************)
(* Claims about parse_sheet_to_dict_or_list and clean_value                *)
(***************************************************************************)
\* the field name a header or key cell stands for: its text, trimmed
TrimmedText(cell) == IF isna(cell) THEN s_empty ELSE Strip(str(cell))

\* what the specification asks of a cell under the field sameAs
SameAsExpected(cell) ==
    IF isna(cell) THEN None
    ELSE LET v == Strip(str(cell))
             raw == SplitOn(v, "|")
             parts == SelectSeq([i \in 1..Len(raw) |-> Strip(raw[i])], LAMBDA p : p # << >>)
         IN IF Lower(v) \in NullWords \/ parts = << >> THEN None ELSE ListV(parts)

\* C1: a cell under the field sameAs is coerced to the sequence of its
\* non-empty trimmed '|'-separated parts, or to null when none remains, in
\* key/value mode (key sameAs) and in list mode (header sameAs) alike.
C1_SameAsIsSplit ==
    xpc = "parse_return" =>
      /\ ~is_list =>
           \A idx \in 1..Len(df) :
             (/\ Len(df[idx]) >= 2
              /\ TrimmedText(df[idx][1]) = s_sameAs
              /\ \A j \in (idx + 1)..Len(df) : TrimmedText(df[j][1]) # s_sameAs)
             => DictGet(data.recs[1], StrV(s_sameAs)) = SameAsExpected(df[idx][2])
      /\ (is_list /\ Len(df) = 2) =>
           \A i \in 1..Len(df[1]) :
             (/\ TrimmedText(df[1][i]) = s_sameAs
              /\ \A j \in 1..Len(df[1]) : j # i => TrimmedText(df[1][j]) # s_sameAs)
             => (IF data.recs = << >> THEN None ELSE DictGet(data.recs[1], StrV(s_sameAs)))
                  = SameAsExpected(df[2][i])

\* C2: in key/value mode the document has exactly one entry per distinct
\* trimmed key text over the rows with at least 2 columns and a non-missing,
\* non-empty key; its key is that text and its value the coercion of column 1
\* of the last such row; no other row is skipped.
C2_KeyValueLastWins ==
    (xpc = "parse_return" /\ ~is_list) =>
      LET d == data.recs[1]
          Good == {idx \in 1..Len(df) : Len(df[idx]) >= 2 /\ TrimmedText(df[idx][1]) # s_empty}
          Keys == {TrimmedText(df[idx][1]) : idx \in Good}
          Last(k) == CHOOSE idx \in Good :
                        /\ TrimmedText(df[idx][1]) = k
                        /\ \A j \in Good : TrimmedText(df[j][1]) = k => j <= idx
      IN /\ Len(d) = Cardinality(Keys)
         /\ \A k \in Keys :
              \E i \in 1..Len(d) : d[i].k = StrV(k) /\ d[i].v = clean_value(df[Last(k)][2])

\* the data rows of a tabular grid with at least one non-null coerced cell
KeptRows(grid) == {idx \in 2..Len(grid) : \E i \in 1..Len(grid[idx]) : clean_value(grid[idx][i]) # None}

\* the columns of a row whose coerced cell is non-null
ValueColumns(cells) == {i \in 1..Len(cells) : clean_value(cells[i]) # None}

\* C3 as stated: the records are the data rows with a non-null cell, in row
\* order, and each record holds exactly the columns whose coerced cell is
\* non-null, each under its trimmed header; no record is empty or holds null.
C3_RecordHoldsEveryColumn ==
    (xpc = "parse_return" /\ is_list /\ Len(df) >= 1) =>
      LET Kept == KeptRows(df)
          Rank(idx) == Cardinality({k \in Kept : k <= idx})
      IN /\ Len(data.recs) = Cardinality(Kept)
         /\ \A idx \in Kept :
              LET rec == data.recs[Rank(idx)]
                  cells == df[idx]
              IN /\ Len(rec) = Cardinality(ValueColumns(cells))
                 /\ \A i \in ValueColumns(cells) :
                      \E e \in 1..Len(rec) : /\ rec[e].k = StrV(TrimmedText(df[1][i]))
                                             /\ rec[e].v = clean_value(cells[i])

\* C3 (amended): the records are the data rows with a non-null cell, in row
\* order; each record has one field per distinct trimmed header among the
\* columns whose coerced cell is non-null, holding the cell of the last such
\* column with that header; no record is empty and no field is null.
C3_RecordHoldsLastColumnPerHeader ==
    /\ (xpc = "parse_return" /\ is_list /\ Len(df) = 0) => data.recs = << >>
    /\ (xpc = "parse_return" /\ is_list /\ Len(df) >= 1) =>
         LET Kept == KeptRows(df)
             Rank(idx) == Cardinality({k \in Kept : k <= idx})
             H(i) == TrimmedText(df[1][i])
         IN /\ Len(data.recs) = Cardinality(Kept)
            /\ \A idx \in Kept :
                 LET rec == data.recs[Rank(idx)]
                     cells == df[idx]
                     LastOf(i) == \A j \in ValueColumns(cells) : H(j) = H(i) => j <= i
                 IN /\ Len(rec) = Cardinality({H(i) : i \in ValueColumns(cells)})
                    /\ \A i \in ValueColumns(cells) :
                         LastOf(i) => \E e \in 1..Len(rec) : /\ rec[e].k = StrV(H(i))
                                                             /\ rec[e].v = clean_value(cells[i])
            /\ \A r \in 1..Len(data.recs) :
                 /\ data.recs[r] # << >>
                 /\ \A e \in 1..Len(data.recs[r]) : data.recs[r][e].v # None

\* a tabular parse that dropped an all-null row, kept the row after it, and
\* folded two non-null columns of one trimmed header into one field
C3_Witness ==
    /\ xpc = "parse_return" /\ is_list
    /\ Len(df) = 3 /\ Len(df[1]) = 2
    /\ TrimmedText(df[1][1]) = TrimmedText(df[1][2])
    /\ ValueColumns(df[2]) = {} /\ ValueColumns(df[3]) = {1, 2}
    /\ clean_value(df[3][1]) # clean_value(df[3][2])
    /\ Len(data.recs) = 1 /\ Len(data.recs[1]) = 1

(***************************************************************************)
(* Claims about main() of generate_files_from_xlsx.py                      *)
(***************************************************************************)
\* C4: the two writes of a sheet are independent: when the JSON write fails
\* the YAML write is still attempted, and the other way round; the result is
\* failure exactly when one of the two writes failed; and a failed write does
\* not end the run.
C4_WritesIndependent ==
    wr # NoWrite =>
      /\ wr.json = "failed" => wr.yaml # "not attempted"
      /\ wr.yaml = "failed" => wr.json # "not attempted"
      /\ ~wr.success <=> (wr.json = "failed" \/ wr.yaml = "failed")
      /\ ~wr.success => xpc # "exit"

\* the document of core_info has a field website
HasWebsite == core_info.recs # << >> /\ \E i \in 1..Len(core_info.recs[1]) :
                                          core_info.recs[1][i].k = StrV(s_website)

\* C6: after the loop over the sheets the handoff step is reached and does not
\* raise; the handoff file then holds the trimmed website of core_info when
\* that field is present, else the trimmed SITE_BASE_URL when one is set, and
\* is not written when there is neither.
C6_HandoffNeverRaises ==
    /\ xpc # "raised"
    /\ xpc = "done" =>
         IF HasWebsite
           THEN /\ site_url_txt.exists
                /\ DictGet(core_info.recs[1], StrV(s_website)).t = "str"
                /\ site_url_txt.text = Strip(DictGet(core_info.recs[1], StrV(s_website)).s)
           ELSE IF SITE_BASE_URL.set /\ SITE_BASE_URL.s # << >>
                  THEN site_url_txt = [exists |-> TRUE, text |-> Strip(SITE_BASE_URL.s)]
                  ELSE ~site_url_txt.exists

(***************************************************************************)
(* Claims about main() of generate_sitemaps.py                             *)
(***************************************************************************)
\* an error reached the except clause of main
Failed == \E i \in 1..Len(report) : report[i].kind \in ErrorKinds

\* the last turn of the loop wrote a sitemap
Wrote == report # << >> /\ report[Len(report)].kind = "WROTE"

\* C5: an unhandled error ends the loop, the error and the trace follow the
\* lines of the rows handled before it, the report is written all the same,
\* and the process then ends with a non-zero status; a run with no unhandled
\* error ends with status zero.
C5_FailureExitStatus ==
    spc = "exit" =>
      /\ report_txt = [exists |-> TRUE, lines |-> report]
      /\ Failed =>
           /\ Len(report) >= 2
           /\ report[Len(report)].kind = "TRACEBACK"
           /\ report[Len(report) - 1].kind \in ErrorKinds
           /\ \A j \in 1..(Len(report) - 2) :
                report[j].kind \in {"SKIPPED", "ERROR placeholder", "WROTE"} /\ report[j].row = j
           /\ sexit # 0
      /\ ~Failed => sexit = 0

\* the characters a..b of q, as far as q has them
Part(q, a, b) == SubSeq(q, a, IF b > Len(q) THEN Len(q) ELSE b)

\* the text with https:// put before it unless it starts with http:// or https://
WithScheme(text) ==
    IF Part(text, 1, 7) = s_http \/ Part(text, 1, 8) = s_https THEN text ELSE s_https \o text

\* u is w without its trailing slashes
IsWithoutTrailingSlashes(u, w) ==
    /\ Len(u) <= Len(w)
    /\ u = SubSeq(w, 1, Len(u))
    /\ u = << >> \/ u[Len(u)] # "/"
    /\ \A i \in (Len(u) + 1)..Len(w) : w[i] = "/"

\* the text holds one of the placeholder words
HoldsPlaceholder(text) ==
    \E word \in {s_example_com, s_yourdomain_com, s_your_domain_com} :
      \E j \in 1..Len(text) : Part(text, j, j + Len(word) - 1) = word

\* w without its trailing slashes, in lower case, holds a placeholder word
IsPlaceholder(w) ==
    \E k \in 0..Len(w) :
      IsWithoutTrailingSlashes(SubSeq(w, 1, k), w) /\ HoldsPlaceholder(Lower(SubSeq(w, 1, k)))

\* the row's domain is missing, blank, or a placeholder once normalized
IsRejected(cell) ==
    TrimmedText(cell) = s_empty \/ IsPlaceholder(WithScheme(TrimmedText(cell)))

\* a turn of the loop over the rows
RowStep == spc = "rows" /\ row_i' = row_i + 1

\* C7: a row whose trimmed domain is empty or whose normalized domain holds a
\* placeholder anywhere, whatever the case, writes no sitemap, adds exactly
\* one skip or error line to the report and lets the loop go on; any other
\* row's domain is its trimmed text with https:// put before it unless it has
\* an http or https scheme and with its trailing slashes removed, and that
\* domain starts every URL of the row's sitemap.
C7_DomainRule ==
    [][RowStep =>
         LET cell == row'[domain_col]
         IN IF IsRejected(cell)
              THEN /\ sitemaps' = sitemaps
                   /\ total' = total
                   /\ Len(report') = Len(report) + 1
                   /\ SubSeq(report', 1, Len(report)) = report
                   /\ report'[Len(report')].kind \in {"SKIPPED", "ERROR placeholder"}
                   /\ report'[Len(report')].row = row_i'
                   /\ spc' = "rows"
              ELSE /\ IsWithoutTrailingSlashes(domain', WithScheme(TrimmedText(cell)))
                   /\ spc' = "rows" =>
                        /\ slug' \in DOMAIN sitemaps'
                        /\ report'[Len(report')].kind = "WROTE"
                        /\ report'[Len(report')].domain = domain'
                        /\ \A e \in 1..Len(sitemaps'[slug']) :
                             LET loc == sitemaps'[slug'][e].loc
                             IN Part(loc, 1, Len(domain') + 1) = domain' \o <<"/">>
    ]_vars

\* a placeholder row was refused, then the row of acme.io got a sitemap of
\* at least one URL under https://acme.io
C7_Witness ==
    /\ spc = "rows" /\ row_i = 2 /\ Len(report) = 2
    /\ report[1].kind = "ERROR placeholder"
    /\ report[2].kind = "WROTE" /\ report[2].urls > 0
    /\ row[domain_col] = Cell(s_acme_io)
    /\ domain = s_https_acme_io
    /\ sitemaps[slug][1].loc = s_https_acme_io \o <<"/">> \o as_posix(F_loc)

\* C8: after a run with no unhandled error there are as many sitemap files as
\* accepted rows (the count of the summary line): no row's sitemap is
\* overwritten by that of a later row.
C8_OneIndexPerRow ==
    (spc = "exit" /\ ~Failed) =>
      /\ report[Len(report)].kind = "DONE" /\ report[Len(report)].urls = total
      /\ Cardinality(DOMAIN sitemaps) = total

\* C9: every entry of a sitemap refers to a regular file of non-zero size
\* with a known extension, so that a zero-length file has no entry; and a
\* listed bare file name that exists non-empty under a default folder has one.
C9_EntriesAreFiles ==
    Wrote =>
      LET urls == sitemaps[slug]
      IN /\ \A e \in 1..Len(urls) :
              /\ urls[e].file \in DOMAIN disk
              /\ disk[urls[e].file] = "file"
              /\ Lower(PathSuffix(urls[e].file)) \in VALID_EXTS
         /\ \A k \in 1..Len(paths) :
              (/\ \A i \in 1..Len(paths[k]) : paths[k][i] \notin {"/", "\\"}
               /\ Lower(PathSuffix(<<paths[k]>>)) \in VALID_EXTS
               /\ \E f \in 1..Len(DEFAULT_FOLDERS) :
                    /\ <<DEFAULT_FOLDERS[f], paths[k]>> \in DOMAIN disk
                    /\ disk[<<DEFAULT_FOLDERS[f], paths[k]>>] = "file")
              => \E e \in 1..Len(urls) : PathName(urls[e].file) = paths[k]

\* the place of the first occurrence of x in the sequence q
FirstPlace(q, x) == CHOOSE i \in 1..Len(q) : q[i] = x /\ \A j \in 1..(i - 1) : q[j] # x

\* C10: in a row's sitemap no file has more than one entry: each file the
\* row's candidate paths resolve to, once or several times, has exactly one
\* entry, and the entries are in the order in which each file was first
\* resolved.
C10_NoDuplicateEntries ==
    Wrote =>
      LET urls == sitemaps[slug]
      IN /\ \A a, b \in 1..Len(urls) : a # b => urls[a].file # urls[b].file
         /\ {urls[e].file : e \in 1..Len(urls)} = {existing[k] : k \in 1..Len(existing)}
         /\ \A a, b \in 1..Len(urls) :
              a < b => FirstPlace(existing, urls[a].file) < FirstPlace(existing, urls[b].file)
         /\ report[Len(report)].urls = Len(urls)

\* a row listed locations/store.json in both file columns and as a bare name,
\* among other files, and its sitemap has one entry for each file
C10_Witness ==
    /\ Wrote
    /\ Len(existing) >= 4 /\ Len(sitemaps[slug]) = 3
    /\ Cardinality({k \in 1..Len(existing) : existing[k] = F_loc}) >= 3
    /\ Cardinality({k \in 1..Len(paths) : paths[k] = s_store_json}) >= 1

====
